---- MODULE Spec2Model ----
(***************************************************************************)
(* Vault key-pair service: KeyManagerHelper.keysPairs and the global       *)
(* DatabaseSession singleton CONNECTION_DATABASE, run by the gRPC thread   *)
(* pool.  Each worker thread executes one keysPairs call at a time; the    *)
(* steps of a call interleave with the steps of the other workers.         *)
(***************************************************************************)
EXTENDS Integers, FiniteSets, Sequences, TLC

(* ------------------------------ bounds -------------------------------- *)
\* worker threads of the pool that are modelled
NumWorkers == 2
\* keysPairs calls begun in one behaviour
MaxCalls == 3
\* last instant of the clock, in ticks of 12 hours
MaxTime == 4
MaxScalar == 2

(* ------------------------- program constants -------------------------- *)
\* timedelta(days=1), in ticks of 12 hours
ValidityTicks == 2

Workers == 1..NumWorkers
SystemCodes == {"BILLING-01", "CRM-02"}
VAULT_SECRET_KEY == "vault-secret"
None == [none |-> TRUE]
\* the system_code of a thread that holds no request
NoCode == ""

VARIABLES
    codes,            \* the system codes the requests of this run carry
    budget,           \* the number of keysPairs calls followed in this run
    EXISTS_TABLES,    \* SETTINGS.EXISTS_TABLES
    main_pc,          \* position of main: "boot", "started" (server.start() done), "wait"
    tables,           \* the schema (table keys_pairs) exists in the database
    now,              \* datetime.now(pytz.UTC), in ticks
    store,            \* rows of table keys_pairs
    entropy,          \* private scalars drawn so far from the secure random source
    self_session,     \* CONNECTION_DATABASE.session: the worker whose Session it holds, 0 before the first __enter__
    sess,             \* per worker: state of the Session object its with-block got
    pending,          \* per worker: its Session holds the added, unflushed KeyPair
    pc,               \* per worker: position in keysPairs
    system_code,      \* per worker: request.system_code
    latest_key_pair,  \* per worker: result of get_latest_key_pair
    keys,             \* per worker: tuple returned by generate_keys
    exc,              \* per worker: an exception is propagating
    encrypted_data,   \* per worker: the payload of the response
    calls,            \* keysPairs calls begun
    served,           \* history: rows whose bundle a finished call returned
    prior             \* history: per worker, rows already served for its code and inside the window when its call began

vars == <<codes, budget, EXISTS_TABLES, main_pc, tables, now, store, entropy, self_session, sess, pending, pc, system_code,
          latest_key_pair, keys, exc, encrypted_data, calls, served, prior>>

(* --------------------------- key material ----------------------------- *)
\* ec.generate_private_key: the scalar is the next draw of the random source
generate_private_key(e) == e + 1

\* EllipticCurvePrivateKey.public_key(): the point belonging to scalar d
public_key_of(d) == [point |-> d]

\* private_bytes(PEM, PKCS8, NoEncryption) then b64encode(...).decode
private_key_base64(d) == [b64 |-> [pem |-> "PRIVATE KEY", d |-> d]]

\* public_bytes(PEM, SubjectPublicKeyInfo) then b64encode(...).decode
public_key_base64(q) == [b64 |-> [pem |-> "PUBLIC KEY", q |-> q.point]]

\* the public counterpart of an encoded private key
PublicCounterpart(priv) == public_key_base64(public_key_of(priv.b64.d))

generate_keys(e) ==
    LET private_key == generate_private_key(e)
        refresh_private_key == generate_private_key(e + 1)
        public_key == public_key_of(private_key)
        refresh_public_key == public_key_of(private_key)
    IN  [private_key |-> private_key_base64(private_key),
         public_key |-> public_key_base64(public_key),
         refresh_private_key |-> private_key_base64(refresh_private_key),
         refresh_public_key |-> public_key_base64(refresh_public_key)]

(* ------------------------------ cipher -------------------------------- *)
BundleFields == <<"private_key", "public_key", "refresh_private_key", "refresh_public_key">>

\* a slip in the dict literal: the refresh public field carries the public key
DictStrMisfiled(private_key, public_key, refresh_private_key, refresh_public_key) ==
    << <<"private_key", private_key>>, <<"public_key", public_key>>,
       <<"refresh_private_key", refresh_private_key>>,
       <<"refresh_public_key", public_key>> >>

\* str(data_to_encrypt): the dict literal, fields in insertion order
DictStr(private_key, public_key, refresh_private_key, refresh_public_key) ==
    << <<"private_key", private_key>>, <<"public_key", public_key>>,
       <<"refresh_private_key", refresh_private_key>>,
       <<"refresh_public_key", refresh_public_key>> >>

\* Fernet(key).encrypt(data): a token stamped with the current time
FernetEncrypt(key, data, t) == [timestamp |-> t, key |-> key, data |-> data]

\* Fernet(key).decrypt(token): the data, or None under another key
FernetDecrypt(key, token) == IF token.key = key THEN token.data ELSE None

\* reading the dict literal back into the four-field bundle
ParseDict(text) == [f \in {text[i][1] : i \in 1..Len(text)} |->
                       LET i == CHOOSE j \in 1..Len(text) : text[j][1] = f IN text[i][2]]

encrypt_keys(private_key, public_key, refresh_private_key, refresh_public_key, t) ==
    FernetEncrypt(VAULT_SECRET_KEY,
                  DictStr(private_key, public_key, refresh_private_key, refresh_public_key), t)

\* the bundle a client holding the configured key reads out of a payload
Decrypted(token) == ParseDict(FernetDecrypt(VAULT_SECRET_KEY, token))

\* the four key fields of a row or of a generate_keys tuple
Bundle(r) == [f \in {BundleFields[i] : i \in 1..4} |-> r[f]]

(* ------------------------------- store -------------------------------- *)
\* BaseModel.id: assigned by the store at insert
NextId(rows) == Cardinality(rows) + 1

\* BaseModel.created_at: set once, at insert
CreatedAtDefault(t) == t

\* KeyPair(system_code=..., private_key=..., ...) as inserted at time t
KeyPair(rows, code, k, t) ==
    [id |-> NextId(rows), system_code |-> code,
     private_key |-> k.private_key, public_key |-> k.public_key,
     refresh_private_key |-> k.refresh_private_key,
     refresh_public_key |-> k.refresh_public_key,
     created_at |-> CreatedAtDefault(t)]

\* mutant: the query without its filter_by
FilterByNothing(rows, code) == rows

\* query(KeyPair).filter_by(system_code=code)
FilterBy(rows, code) == {r \in rows : r.system_code = code}

\* mutant: the query ordered by created_at ascending
OldestRows(rows, code) ==
    LET mine == {r \in rows : r.system_code = code}
    IN  IF mine = {} THEN {None}
        ELSE {r \in mine : \A q \in mine : r.created_at <= q.created_at}

\* .order_by(KeyPair.created_at.desc()).first(): the rows the query may
\* return; rows with equal created_at come in an order the store chooses
LatestRows(rows, code) ==
    LET mine == FilterBy(rows, code)
    IN  IF mine = {} THEN {None}
        ELSE {r \in mine : \A q \in mine : q.created_at <= r.created_at}

\* a grace period: a record one tick past its day still counts as active
key_is_expired_with_grace(key_pair, t) == t > key_pair.created_at + ValidityTicks + 1

\* timedelta(hours=1) for timedelta(days=1): under a tick, so a record
\* counts as expired as soon as the clock has moved
key_is_expired_after_an_hour(key_pair, t) == t > key_pair.created_at

\* mutant: a row is taken as expired from the instant its window ends
key_is_expired_at_boundary(key_pair, t) == t >= key_pair.created_at + ValidityTicks

\* key_is_expired: datetime.now(pytz.UTC) > created_at + timedelta(days=1)
key_is_expired(key_pair, t) ==
    LET expiration_date == key_pair.created_at + ValidityTicks
    IN  t > expiration_date

(* ------------------------------- Init --------------------------------- *)
\* the settings and bounds of a run, which no step changes
config == <<codes, budget, EXISTS_TABLES>>

\* the state main's startup leaves behind
startup == <<main_pc, tables>>

\* the state of the request handlers and the store before any request
InitCalls(cs, n) ==
    /\ codes = cs
    /\ budget = n
    /\ now = 0
    /\ store = {}
    /\ entropy = 0
    /\ self_session = 0
    /\ sess = [w \in Workers |-> "none"]
    /\ pending = [w \in Workers |-> FALSE]
    /\ pc = [w \in Workers |-> "idle"]
    /\ system_code = [w \in Workers |-> NoCode]
    /\ latest_key_pair = [w \in Workers |-> None]
    /\ keys = [w \in Workers |-> None]
    /\ exc = [w \in Workers |-> FALSE]
    /\ encrypted_data = [w \in Workers |-> None]
    /\ calls = 0
    /\ served = {}
    /\ prior = [w \in Workers |-> {}]

\* main is in server.wait_for_termination() over a provisioned schema
InitWith(cs, n) ==
    /\ InitCalls(cs, n)
    /\ EXISTS_TABLES = FALSE
    /\ main_pc = "wait"
    /\ tables = TRUE

\* an empty store, clients of every system code
Init == InitWith(SystemCodes, MaxCalls)

\* an empty store, clients of one system code, one more call followed
InitOneCode == InitWith({"BILLING-01"}, MaxCalls + 1)

\* calls begun in one behaviour
CallBudget == budget

(* ------------------------ DatabaseSession ----------------------------- *)
\* __enter__: self.session = self.SessionLocal(); return self.session
DatabaseSession_enter(w) ==
    /\ self_session' = w
    /\ sess' = [sess EXCEPT ![w] = "open"]
    /\ pending' = [pending EXCEPT ![w] = FALSE]

\* __exit__: self.session.close(), on whichever Session the attribute holds
\* now; close() drops the objects added to that Session and not yet flushed.
\* It returns None, so an exception of the block keeps propagating.
DatabaseSession_exit(w) ==
    /\ sess' = [sess EXCEPT ![self_session] = "closed"]
    /\ pending' = [pending EXCEPT ![self_session] = FALSE]
    /\ UNCHANGED self_session

\* mutant: __exit__ returns True and swallows the exception of its block
ExitSwallows(w) == FALSE

\* does __exit__ let the exception of its block propagate
ExitPropagates(w) == exc[w]

(* ------------------------------ actions ------------------------------- *)
\* the clock advances
Tick ==
    /\ now < MaxTime
    /\ now' = now + 1
    /\ UNCHANGED <<config, startup, store, entropy, self_session, sess, pending, pc, system_code,
                   latest_key_pair, keys, exc, encrypted_data, calls, served, prior>>

\* a pool thread picks up a request: system_code = request.system_code, then
\* get_latest_key_pair enters its with block
Issue(w, code) ==
    /\ pc[w] = "idle"
    /\ main_pc \in {"started", "wait"}
    /\ calls < CallBudget
    /\ calls' = calls + 1
    /\ system_code' = [system_code EXCEPT ![w] = code]
    /\ prior' = [prior EXCEPT ![w] =
                   {r \in served : r.system_code = code /\ now - r.created_at <= ValidityTicks}]
    /\ DatabaseSession_enter(w)
    /\ pc' = [pc EXCEPT ![w] = "query"]
    /\ UNCHANGED <<config, startup, now, store, entropy, latest_key_pair, keys, exc, encrypted_data, served>>

\* a single-flight guard: the read waits while another call for the same code
\* is between its own read and the end of its append
GetLatestQuerySingleFlight(w) ==
    /\ pc[w] = "query"
    /\ \A v \in Workers \ {w} :
          pc[v] \in {"latest_exit", "generate", "add", "commit", "add_exit"} =>
              system_code[v] # system_code[w]
    /\ \/ /\ tables
          /\ \E r \in LatestRows(store, system_code[w]) :
                latest_key_pair' = [latest_key_pair EXCEPT ![w] = r]
          /\ sess' = [sess EXCEPT ![w] = "open"]
          /\ UNCHANGED exc
       \/ /\ exc' = [exc EXCEPT ![w] = TRUE]
          /\ UNCHANGED <<latest_key_pair, sess>>
    /\ pc' = [pc EXCEPT ![w] = "latest_exit"]
    /\ UNCHANGED <<config, startup, now, store, entropy, self_session, pending, system_code, keys,
                   encrypted_data, calls, served, prior>>

\* get_latest_key_pair: session.query(...).first(), or a store fault
GetLatestQuery(w) ==
    /\ pc[w] = "query"
    /\ \/ /\ tables
          /\ \E r \in LatestRows(store, system_code[w]) :
                latest_key_pair' = [latest_key_pair EXCEPT ![w] = r]
          /\ sess' = [sess EXCEPT ![w] = "open"]
          /\ UNCHANGED exc
       \/ /\ exc' = [exc EXCEPT ![w] = TRUE]
          /\ UNCHANGED <<latest_key_pair, sess>>
    /\ pc' = [pc EXCEPT ![w] = "latest_exit"]
    /\ UNCHANGED <<config, startup, now, store, entropy, self_session, pending, system_code, keys,
                   encrypted_data, calls, served, prior>>

\* keysPairs: if latest_key_pair and not self.key_is_expired(latest_key_pair)
\* the condition of line 62 with its negation lost
ReusableWhenExpired(key_pair, t) == key_pair # None /\ key_is_expired(key_pair, t)

Reusable(key_pair, t) == key_pair # None /\ ~key_is_expired(key_pair, t)

\* get_latest_key_pair leaves its with block; then keysPairs decides: the
\* reuse branch encrypts the fetched row, the other goes on to generate
GetLatestExit(w) ==
    /\ pc[w] = "latest_exit"
    /\ DatabaseSession_exit(w)
    /\ IF ExitPropagates(w)
       THEN /\ pc' = [pc EXCEPT ![w] = "failed"]
            /\ UNCHANGED encrypted_data
       ELSE IF Reusable(latest_key_pair[w], now)
       THEN /\ encrypted_data' = [encrypted_data EXCEPT ![w] =
                   encrypt_keys(latest_key_pair[w].private_key,
                                latest_key_pair[w].public_key,
                                latest_key_pair[w].refresh_private_key,
                                latest_key_pair[w].refresh_public_key, now)]
            /\ pc' = [pc EXCEPT ![w] = "done"]
       ELSE /\ pc' = [pc EXCEPT ![w] = "generate"]
            /\ UNCHANGED encrypted_data
    /\ UNCHANGED <<config, startup, now, store, entropy, system_code, latest_key_pair, keys, exc,
                   calls, served, prior>>

\* a retry loop: when the primitive fails, generate_keys is invoked again
GenerateWithRetry(w) ==
    /\ pc[w] = "generate"
    /\ \/ /\ keys' = [keys EXCEPT ![w] = generate_keys(entropy)]
          /\ entropy' = entropy + 2
          /\ DatabaseSession_enter(w)
          /\ pc' = [pc EXCEPT ![w] = "add"]
       \/ /\ entropy' = entropy + 2
          /\ UNCHANGED <<keys, pc, self_session, sess, pending>>
    /\ UNCHANGED <<config, startup, now, store, system_code, latest_key_pair, exc,
                   encrypted_data, calls, served, prior>>

\* generate_and_encrypt_keys: self.generate_keys() (or the primitive fails),
\* KeyPair(...), then entering the with block
Generate(w) ==
    /\ pc[w] = "generate"
    /\ \/ /\ keys' = [keys EXCEPT ![w] = generate_keys(entropy)]
          /\ entropy' = entropy + 2
          /\ DatabaseSession_enter(w)
          /\ pc' = [pc EXCEPT ![w] = "add"]
          /\ UNCHANGED exc
       \/ /\ exc' = [exc EXCEPT ![w] = TRUE]
          /\ pc' = [pc EXCEPT ![w] = "failed"]
          /\ UNCHANGED <<keys, entropy, self_session, sess, pending>>
    /\ UNCHANGED <<config, startup, now, store, system_code, latest_key_pair, encrypted_data, calls,
                   served, prior>>

\* generate_and_encrypt_keys: session.add(key_pair)
SessionAdd(w) ==
    /\ pc[w] = "add"
    /\ pending' = [pending EXCEPT ![w] = TRUE]
    /\ sess' = [sess EXCEPT ![w] = "open"]
    /\ pc' = [pc EXCEPT ![w] = "commit"]
    /\ UNCHANGED <<config, startup, now, store, entropy, self_session, system_code, latest_key_pair,
                   keys, exc, encrypted_data, calls, served, prior>>

\* mutant: the commit replaces the rows of the code instead of adding one
CommitRowsUpsert(rows, w, t) ==
    IF pending[w]
    THEN {r \in rows : r.system_code # system_code[w]}
             \cup {KeyPair(rows, system_code[w], keys[w], t)}
    ELSE rows

\* session.commit() succeeding: the pending row, if the Session still holds
\* it, is inserted; a Session with nothing pending commits nothing
CommitRows(rows, w, t) ==
    IF pending[w] THEN rows \cup {KeyPair(rows, system_code[w], keys[w], t)} ELSE rows

\* a commit that waits until CONNECTION_DATABASE.session is its own Session
SessionCommitAwaitingSession(w) ==
    /\ pc[w] = "commit"
    /\ self_session = w
    /\ \/ /\ tables \/ ~pending[w]
          /\ store' = CommitRows(store, w, now)
          /\ UNCHANGED exc
       \/ /\ pending[w]
          /\ exc' = [exc EXCEPT ![w] = TRUE]
          /\ UNCHANGED store
    /\ pending' = [pending EXCEPT ![w] = FALSE]
    /\ sess' = [sess EXCEPT ![w] = "open"]
    /\ pc' = [pc EXCEPT ![w] = "add_exit"]
    /\ UNCHANGED <<config, startup, now, entropy, self_session, system_code, latest_key_pair, keys,
                   encrypted_data, calls, served, prior>>

\* generate_and_encrypt_keys: session.commit(), or the store rejects the insert
SessionCommit(w) ==
    /\ pc[w] = "commit"
    /\ \/ /\ tables \/ ~pending[w]
          /\ store' = CommitRows(store, w, now)
          /\ UNCHANGED exc
       \/ /\ pending[w]
          /\ exc' = [exc EXCEPT ![w] = TRUE]
          /\ UNCHANGED store
    /\ pending' = [pending EXCEPT ![w] = FALSE]
    /\ sess' = [sess EXCEPT ![w] = "open"]
    /\ pc' = [pc EXCEPT ![w] = "add_exit"]
    /\ UNCHANGED <<config, startup, now, entropy, self_session, system_code, latest_key_pair, keys,
                   encrypted_data, calls, served, prior>>

\* generate_and_encrypt_keys leaves its with block, then
\* return self.encrypt_keys(private_key, ...)
AddExit(w) ==
    /\ pc[w] = "add_exit"
    /\ DatabaseSession_exit(w)
    /\ IF ExitPropagates(w)
       THEN /\ pc' = [pc EXCEPT ![w] = "failed"]
            /\ UNCHANGED encrypted_data
       ELSE /\ encrypted_data' = [encrypted_data EXCEPT ![w] =
                   encrypt_keys(keys[w].private_key, keys[w].public_key,
                                keys[w].refresh_private_key, keys[w].refresh_public_key, now)]
            /\ pc' = [pc EXCEPT ![w] = "done"]
    /\ UNCHANGED <<config, startup, now, store, entropy, system_code, latest_key_pair, keys, exc,
                   calls, served, prior>>

\* history: the rows of the store that carry the keys worker w generated
Wrote(w) == IF keys[w] = None THEN {}
            ELSE {r \in store : Bundle(r) = Bundle(keys[w])}

\* history: the rows whose bundle a finished call hands back
SourceRows(w) ==
    IF keys[w] = None THEN {latest_key_pair[w]} \ {None} ELSE Wrote(w)

\* keysPairs returns the response, or the exception reaches the transport;
\* the thread goes back to the pool
Return(w) ==
    /\ pc[w] \in {"done", "failed"}
    /\ served' = IF pc[w] = "done" THEN served \cup SourceRows(w) ELSE served
    /\ pc' = [pc EXCEPT ![w] = "idle"]
    /\ system_code' = [system_code EXCEPT ![w] = NoCode]
    /\ latest_key_pair' = [latest_key_pair EXCEPT ![w] = None]
    /\ keys' = [keys EXCEPT ![w] = None]
    /\ exc' = [exc EXCEPT ![w] = FALSE]
    /\ encrypted_data' = [encrypted_data EXCEPT ![w] = None]
    /\ prior' = [prior EXCEPT ![w] = {}]
    /\ UNCHANGED <<config, startup, now, store, entropy, self_session, sess, pending, calls>>

Next ==
    \/ Tick
    \/ \E w \in Workers, code \in codes : Issue(w, code)
    \/ \E w \in Workers : GetLatestQuery(w)
    \/ \E w \in Workers : GetLatestExit(w)
    \/ \E w \in Workers : Generate(w)
    \/ \E w \in Workers : SessionAdd(w)
    \/ \E w \in Workers : SessionCommit(w)
    \/ \E w \in Workers : AddExit(w)
    \/ \E w \in Workers : Return(w)

Spec == Init /\ [][Next]_vars

\* the same service with clients of a single system code
SpecOneCode == InitOneCode /\ [][Next]_vars

(* --------------------------- fair scheduling --------------------------- *)
\* the next step of the call worker w is running
CallStep(w) ==
    \/ GetLatestQuery(w)
    \/ GetLatestExit(w)
    \/ Generate(w)
    \/ SessionAdd(w)
    \/ SessionCommit(w)
    \/ AddExit(w)

\* an empty store, clients of one system code, one call fewer followed
InitFair == InitWith({"BILLING-01"}, MaxCalls - 1)

\* every pool thread that can take a step eventually takes it
SpecFair ==
    /\ InitFair
    /\ [][Next]_vars
    /\ \A w \in Workers : WF_vars(CallStep(w))

(* ------------------------------ startup ------------------------------- *)
\* main has built the server and not yet started it; the tables are missing
\* when this process is the one asked to create them
InitStartup ==
    /\ InitCalls({"BILLING-01"}, MaxCalls)
    /\ EXISTS_TABLES \in BOOLEAN
    /\ tables = ~EXISTS_TABLES
    /\ main_pc = "boot"

\* main: server.start(); from here the pool accepts requests
ServerStart ==
    /\ main_pc = "boot"
    /\ main_pc' = "started"
    /\ UNCHANGED <<config, tables, now, store, entropy, self_session, sess, pending, pc,
                   system_code, latest_key_pair, keys, exc, encrypted_data, calls, served, prior>>

\* main: if SETTINGS.EXISTS_TABLES: CONNECTION_DATABASE.create_all(); then
\* server.wait_for_termination()
CreateAll ==
    /\ main_pc = "started"
    /\ tables' = (tables \/ EXISTS_TABLES)
    /\ main_pc' = "wait"
    /\ UNCHANGED <<config, now, store, entropy, self_session, sess, pending, pc,
                   system_code, latest_key_pair, keys, exc, encrypted_data, calls, served, prior>>

NextStartup ==
    \/ ServerStart
    \/ CreateAll
    \/ Next

\* the service followed from the start of main
SpecStartup == InitStartup /\ [][NextStartup]_vars

(* ------------------- calls of one code one at a time ------------------ *)
\* a request for a code is sent only when no call for that code is in progress
IssueInTurn(w, code) ==
    /\ \A v \in Workers : pc[v] # "idle" => system_code[v] # code
    /\ Issue(w, code)

NextSequential ==
    \/ Tick
    \/ \E w \in Workers, code \in codes : IssueInTurn(w, code)
    \/ \E w \in Workers : GetLatestQuery(w)
    \/ \E w \in Workers : GetLatestExit(w)
    \/ \E w \in Workers : Generate(w)
    \/ \E w \in Workers : SessionAdd(w)
    \/ \E w \in Workers : SessionCommit(w)
    \/ \E w \in Workers : AddExit(w)
    \/ \E w \in Workers : Return(w)

\* the service with the calls of each code arriving one after the other
SpecSequential == Init /\ [][NextSequential]_vars

(* --------------------- encrypt_keys called on its own ------------------ *)
\* the encoded keys generate_keys can hand to encrypt_keys
KeyTexts ==
    {private_key_base64(d) : d \in 1..MaxScalar}
        \cup {public_key_base64(public_key_of(d)) : d \in 1..MaxScalar}

\* every four-field bundle of encoded keys, equal fields included
WellFormedBundles == [{BundleFields[i] : i \in 1..4} -> KeyTexts]

\* the thread that calls encrypt_keys
Caller == CHOOSE w \in Workers : \A v \in Workers : w <= v

\* encrypt_keys(b.private_key, b.public_key, b.refresh_private_key,
\* b.refresh_public_key) called directly, its result kept for the caller
EncryptKeys(b) ==
    /\ pc[Caller] = "idle"
    /\ keys' = [keys EXCEPT ![Caller] = b]
    /\ encrypted_data' = [encrypted_data EXCEPT ![Caller] =
           encrypt_keys(b.private_key, b.public_key,
                        b.refresh_private_key, b.refresh_public_key, now)]
    /\ pc' = [pc EXCEPT ![Caller] = "done"]
    /\ UNCHANGED <<config, startup, now, store, entropy, self_session, sess, pending,
                   system_code, latest_key_pair, exc, calls, served, prior>>

NextCipher ==
    \/ Tick
    \/ \E b \in WellFormedBundles : EncryptKeys(b)
    \/ Return(Caller)

SpecCipher == Init /\ [][NextCipher]_vars

(* ------------------------------ claims -------------------------------- *)
\* worker w's call has produced its response
Returned(w) == pc[w] = "done"

\* worker w takes the step that leaves position p
Leaves(w, p) == pc[w] = p /\ pc'[w] # p

\* the payload of w's response, as its client reads it
ReturnedBundle(w) == Decrypted(encrypted_data[w])

\* C1 (as claimed): once a call has returned the bundle of row R, every
\* later call for the same code that begins while R is at most 24h old
\* returns the bundle of R and appends nothing.
C1_IdempotentReuse ==
    \A w \in Workers : Returned(w) =>
        \A r \in prior[w] : ReturnedBundle(w) = Bundle(r) /\ keys[w] = None

\* C1 (amended): once a call has returned the bundle of row R, every later
\* call for the same code whose latest() read yields R and whose expiry
\* check runs while R is at most 24h old returns the bundle of R, generates
\* nothing and leaves the store as it is.
C1_ReuseOfLatest ==
    [][\A w \in Workers :
          ( /\ Leaves(w, "latest_exit")
            /\ ~exc[w]
            /\ latest_key_pair[w] \in prior[w]
            /\ now - latest_key_pair[w].created_at <= ValidityTicks )
          => /\ pc'[w] = "done"
             /\ Decrypted(encrypted_data'[w]) = Bundle(latest_key_pair[w])
             /\ keys'[w] = None
             /\ store' = store
             /\ entropy' = entropy]_vars

\* C1 witness: a later call has returned the bundle of a row served before
C1_Witness ==
    \E w \in Workers :
        /\ Returned(w)
        /\ latest_key_pair[w] \in prior[w]
        /\ keys[w] = None
        /\ ReturnedBundle(w) = Bundle(latest_key_pair[w])

\* C2: a call that read an expired latest row and returned has appended
\* exactly one row for its code, returns private/public keys other than the
\* expired row's, and the expired row is still in the store.
C2_ExpiryRegeneration ==
    \A w \in Workers :
        (Returned(w) /\ latest_key_pair[w] # None /\ keys[w] # None) =>
            /\ Cardinality(Wrote(w)) = 1
            /\ \A r \in Wrote(w) : r.system_code = system_code[w]
            /\ ReturnedBundle(w).private_key # latest_key_pair[w].private_key
            /\ ReturnedBundle(w).public_key # latest_key_pair[w].public_key
            /\ latest_key_pair[w] \in store

\* C3: every step keeps every row of the store, with all its fields.
C3_AppendOnly == [][store \subseteq store']_vars

\* C3 witness: two rows are stored and a call has failed
C3_Witness ==
    /\ Cardinality(store) >= 2
    /\ \E w \in Workers : pc[w] = "failed"

\* C4: the bundle of every returned payload is the bundle of a row stored
\* for the call's code at that moment.
C4_ReturnedIsPersisted ==
    \A w \in Workers : Returned(w) =>
        \E r \in store : r.system_code = system_code[w] /\ Bundle(r) = ReturnedBundle(w)

\* C5: a call whose commit failed holds no payload, never gets past the
\* failure (no encryption, no second generation) and has no row in the store.
C5_AppendFailureAborts ==
    \A w \in Workers : (exc[w] /\ keys[w] # None) =>
        /\ pc[w] \in {"add_exit", "failed"}
        /\ encrypted_data[w] = None
        /\ Wrote(w) = {}

\* C5 witness: a call has ended in failure after its commit failed
C5_Witness ==
    \E w \in Workers : pc[w] = "failed" /\ exc[w] /\ keys[w] # None

\* C6: a latest() read that meets no store fault yields None when the code
\* has no row, and otherwise a row of that code whose created_at no other
\* row of the code exceeds.
C6_LatestRecord ==
    [][\A w \in Workers : (Leaves(w, "query") /\ ~exc'[w]) =>
          LET mine == {r \in store : r.system_code = system_code[w]}
              got == latest_key_pair'[w]
          IN  IF mine = {} THEN got = None
              ELSE got \in mine /\ \A q \in mine : q.created_at <= got.created_at]_vars

\* C6 witness: rows of one code inserted at t1 < t2 < t3, and a read that
\* got the t3 row
C6_Witness ==
    \E w \in Workers : \E r1, r2 \in store :
        /\ pc[w] = "latest_exit" /\ ~exc[w]
        /\ latest_key_pair[w] \in store
        /\ r1.system_code = system_code[w] /\ r2.system_code = system_code[w]
        /\ r1.created_at < r2.created_at
        /\ r2.created_at < latest_key_pair[w].created_at

\* C7: in every stored row each public key is the counterpart of the
\* private key of its own pair.
C7_DerivationCorrect ==
    \A r \in store :
        /\ r.public_key = PublicCounterpart(r.private_key)
        /\ r.refresh_public_key = PublicCounterpart(r.refresh_private_key)

\* the code whose call worker w is running, in a step of w
StepCode(w) == IF pc[w] = "idle" THEN system_code'[w] ELSE system_code[w]

\* a payload holds no key field of row r
NoMaterialOf(bundle, r) ==
    \A f \in DOMAIN bundle : \A g \in DOMAIN bundle : bundle[f] # r[g]

\* C8: a step of a call for code A leaves the rows of every other code B
\* and the outcome of latest(B) as they were, and no returned payload holds
\* key material of a row of another code.
C8_CrossCodeIsolation ==
    /\ [](\A w \in Workers : Returned(w) =>
             \A r \in store : r.system_code # system_code[w]
                                 => NoMaterialOf(ReturnedBundle(w), r))
    /\ [][\A w \in Workers : pc'[w] # pc[w] =>
             \A b \in codes \ {StepCode(w)} :
                /\ {r \in store' : r.system_code = b} = {r \in store : r.system_code = b}
                /\ LatestRows(store', b) = LatestRows(store, b)]_vars

\* C8 witness: rows of both codes are stored and a payload has been returned
C8_Witness ==
    /\ \A c \in codes : \E r \in store : r.system_code = c
    /\ Cardinality(codes) > 1
    /\ \E w \in Workers : Returned(w) /\ keys[w] = None

\* worker w is between __enter__ and __exit__ of a with block
InBlock(w) == pc[w] \in {"query", "latest_exit", "add", "commit", "add_exit"}

\* C9: no Session is closed while the block that opened it is still running,
\* and once every call has finished no Session is left open.
C9_ScopedRelease ==
    /\ \A w \in Workers : InBlock(w) => sess[w] = "open"
    /\ (\A w \in Workers : pc[w] \in {"idle", "done", "failed"})
          => \A w \in Workers : sess[w] # "open"

\* C10: a call that found no row for its code, met no fault and returned
\* has stored exactly one row for the code, carrying the four generated
\* fields; its payload decrypts to these four non-empty fields; the code
\* has a latest row no older than that row.
C10_IssueOnNoKey ==
    \A w \in Workers :
        (Returned(w) /\ latest_key_pair[w] = None /\ keys[w] # None) =>
            /\ Cardinality(Wrote(w)) = 1
            /\ encrypted_data[w] # None
            /\ \A r \in Wrote(w) :
                  /\ r.system_code = system_code[w]
                  /\ ReturnedBundle(w) = Bundle(r)
                  /\ \A f \in DOMAIN Bundle(r) : r[f] # None
                  /\ \A q \in LatestRows(store, system_code[w]) :
                        q # None /\ q.created_at >= r.created_at

C12_ExpiryBoundary ==
    [][\A w \in Workers :
          (Leaves(w, "latest_exit") /\ ~exc[w] /\ latest_key_pair[w] # None) =>
              LET age == now - latest_key_pair[w].created_at
              IN  /\ key_is_expired(latest_key_pair[w], now) <=> (age > ValidityTicks)
                  /\ (pc'[w] = "generate") <=> (age > ValidityTicks)
                  /\ (pc'[w] = "done") <=> (age <= ValidityTicks)]_vars

\* C12 witness: a call whose expiry check ran at age exactly 24 hours has
\* handed back the record it read
C12_Witness ==
    \E w \in Workers :
        /\ Returned(w)
        /\ keys[w] = None
        /\ latest_key_pair[w] # None
        /\ encrypted_data[w].timestamp - latest_key_pair[w].created_at = ValidityTicks
        /\ ReturnedBundle(w) = Bundle(latest_key_pair[w])

\* the record w fetched exists and is inside its 24-hour window now
ObservesActiveKey(w) ==
    /\ ~exc[w]
    /\ latest_key_pair[w] # None
    /\ now - latest_key_pair[w].created_at <= ValidityTicks

\* C13: a call that observes ActiveKey invokes neither generation nor append:
\* none of its steps changes the store or draws key material, and the bundle
\* it returns is the four fields of the record it fetched
C13_ReuseLeavesStore ==
    /\ [](\A w \in Workers :
            (Returned(w) /\ keys[w] = None) =>
                /\ latest_key_pair[w] # None
                /\ ReturnedBundle(w) = Bundle(latest_key_pair[w])
                /\ ~pending[w])
    /\ [][\A w \in Workers :
            ( /\ pc'[w] # pc[w]
              /\ \/ pc[w] \in {"idle", "query"}
                 \/ pc[w] = "latest_exit" /\ ObservesActiveKey(w)
                 \/ pc[w] = "done" /\ keys[w] = None )
            => /\ store' = store
               /\ entropy' = entropy
               /\ keys'[w] = None
               /\ pc'[w] \notin {"generate", "add", "commit", "add_exit"}]_vars

\* C13 witness: a call has returned the fields of the active record it fetched,
\* and that record is still in the store
C13_Witness ==
    \E w \in Workers :
        /\ Returned(w)
        /\ keys[w] = None
        /\ latest_key_pair[w] \in store
        /\ encrypted_data[w].timestamp - latest_key_pair[w].created_at <= ValidityTicks
        /\ ReturnedBundle(w) = Bundle(latest_key_pair[w])

\* C14: when the commit of a newly added record fails, the session's partial
\* persistence state is rolled back before the error leaves the call: once
\* the call has failed its Session has been released with nothing pending,
\* and the store holds no record of the failed append
C14_RollbackBeforePropagation ==
    \A w \in Workers :
        (pc[w] = "failed" /\ keys[w] # None) =>
            /\ sess[w] = "closed"
            /\ ~pending[w]
            /\ Wrote(w) = {}

\* C15: no single-flight: nothing orders two concurrent calls for one code.
\* While one call holds keys it has generated and not yet committed, another
\* call for the same code can still read latest (and see what the first saw);
\* and two such calls that both generated hold different bundles and share no
\* record, so when both appends land the store gains two records
C15_NoSingleFlight ==
    \A w \in Workers, v \in Workers :
        (w # v /\ pc[w] # "idle" /\ pc[v] # "idle" /\ system_code[w] = system_code[v]) =>
            /\ (pc[w] = "query" /\ pc[v] \in {"latest_exit", "generate", "add", "commit", "add_exit"})
                  => ENABLED (GetLatestQuery(w) /\ ~exc'[w])
            /\ (Returned(w) /\ Returned(v) /\ keys[w] # None /\ keys[v] # None)
                  => /\ ReturnedBundle(w) # ReturnedBundle(v)
                     /\ Wrote(w) \cap Wrote(v) = {}

\* C15 witness: two concurrent calls for one code both observed NoKey, each
\* appended its own record, both returned, and the store holds the two records
C15_Witness ==
    \E w \in Workers, v \in Workers :
        /\ w # v
        /\ Returned(w) /\ Returned(v)
        /\ system_code[w] = system_code[v]
        /\ latest_key_pair[w] = None /\ latest_key_pair[v] = None
        /\ Cardinality(Wrote(w)) = 1 /\ Cardinality(Wrote(v)) = 1
        /\ FilterBy(store, system_code[w]) = Wrote(w) \cup Wrote(v)
        /\ Cardinality(FilterBy(store, system_code[w])) = 1 + 1

\* C16: single latest under ties: for every code and every reachable store,
\* two records with equal created_at included, the latest() read resolves to
\* one and the same record as long as nothing is appended, so calls that
\* reuse the latest record of a code in the same store return the same bundle
C16_SingleLatestUnderTies ==
    /\ \A code \in codes : Cardinality(LatestRows(store, code)) = 1
    /\ \A w \in Workers, v \in Workers :
          ( /\ Returned(w) /\ Returned(v)
            /\ keys[w] = None /\ keys[v] = None
            /\ system_code[w] = system_code[v]
            /\ prior[w] = store /\ prior[v] = store )
          => ReturnedBundle(w) = ReturnedBundle(v)

\* C17: no retry: every call invokes generate_keys at most once and appends at
\* most one record, so after n calls the store holds at most n records; when
\* generation fails the call fails with the store unchanged, and a failed
\* call does nothing more
C17_NoRetry ==
    /\ [](/\ Cardinality(store) <= calls
          /\ entropy <= 2 * calls
          /\ \A w \in Workers : Cardinality(Wrote(w)) <= 1)
    /\ [][\A w \in Workers :
            /\ (Leaves(w, "generate") /\ exc'[w])
                  => (pc'[w] = "failed" /\ keys'[w] = None /\ store' = store /\ entropy' = entropy)
            /\ (pc[w] = "failed" /\ pc'[w] # pc[w])
                  => (pc'[w] = "idle" /\ store' = store /\ entropy' = entropy)]_vars

\* C17 witness: a call read an expired record, its generation failed, and the
\* call has failed with the store as it was when the call began
C17_Witness ==
    \E w \in Workers :
        /\ pc[w] = "failed"
        /\ exc[w]
        /\ keys[w] = None
        /\ latest_key_pair[w] # None
        /\ store = prior[w]

\* C18: sequential spacing: when the calls for a code run one at a time, any
\* two records of that code have created_at more than 24 hours apart, so at
\* every instant at most one record per code is inside its validity window
C18_SequentialSpacing ==
    /\ \A r1 \in store, r2 \in store :
          (r1 # r2 /\ r1.system_code = r2.system_code /\ r1.created_at <= r2.created_at)
              => r2.created_at - r1.created_at > ValidityTicks
    /\ \A code \in codes :
          Cardinality({r \in FilterBy(store, code) : now - r.created_at <= ValidityTicks}) <= 1

\* C18 witness: calls made one at a time have left two records for one code
C18_Witness ==
    \E r1 \in store, r2 \in store :
        /\ r1.system_code = r2.system_code
        /\ r2.created_at - r1.created_at > ValidityTicks
        /\ \E w \in Workers : Returned(w) /\ Wrote(w) = {r2} /\ latest_key_pair[w] = r1

\* C19: provisioning precedes serving: when SETTINGS.EXISTS_TABLES is true,
\* main has completed create_all before any request is accepted, so no call
\* is ever in progress against a schema that has not been created
C19_ProvisioningPrecedesServing ==
    EXISTS_TABLES =>
        \A w \in Workers : pc[w] # "idle" => (main_pc = "wait" /\ tables)

\* w is inside a keysPairs call that has neither returned nor failed
InFlight(w) == pc[w] \in {"query", "latest_exit", "generate", "add", "commit", "add_exit"}

\* C20: under fair scheduling of the workers every call that begins eventually
\* ends, with a payload or with a failure; no call waits on another call: the
\* next step of a call in flight can always be taken
C20_IssueTerminates ==
    /\ [](\A w \in Workers : InFlight(w) => ENABLED CallStep(w))
    /\ \A w \in Workers : InFlight(w) ~> (pc[w] \in {"done", "failed"})

\* C20 witness: of two overlapping calls one has ended with a payload and the
\* other with a failure
C20_Witness ==
    \E w \in Workers, v \in Workers :
        /\ pc[w] = "done"
        /\ pc[v] = "failed"
        /\ encrypted_data[w] # None
        /\ exc[v]

====
